---- MODULE Spec2Model ----
(***************************************************************************)
(* One transcribeMedia call of the Transcriber repository: credential      *)
(* check, resumable-upload session start, the chunk loop of                *)
(* uploadToGemini, the readiness poll loop, onProgress(100) and the single *)
(* generation request.                                                     *)
(*                                                                         *)
(* Two uploaders exist in the repository and both are modelled, selected   *)
(* by the variable `variant`:                                              *)
(*   "A"  command-style (X-Goog-Upload-Command), src/unnamed/part_002      *)
(*        lines 298-391;                                                   *)
(*   "B"  range-style (Content-Range), src/services/geminiService.ts       *)
(*        lines 8-95.                                                      *)
(*                                                                         *)
(* Every `await` of the code is a step of the model: the action that       *)
(* handles a response runs the code from that await up to the next one.    *)
(* The server, the network and the generation API are the environment:     *)
(* each response is chosen nondeterministically from a small set.          *)
(*                                                                         *)
(* Sizes are counted in an abstract unit (1 unit = 1 MiB for the program's *)
(* UPLOAD_CHUNK_SIZE); chunkEnd and the progress percentage depend only on *)
(* the ratios of offset, chunk size and file size.                         *)
(***************************************************************************)
EXTENDS Integers, Sequences, FiniteSets, TLC

\* ------------------------------------------------------------------ bounds
MaxFileSize == 6
MaxChunkSize == 3
MaxPolls == 3
\* the App: the size of the video file (the audio file has size 1), and the
\* number of polls after which the server stops answering PROCESSING
MaxAppFileSize == 2
MaxAppPolls == 1
\* the session-URL specification: the largest file size
MaxUrlFileSize == 2

\* UPLOAD_CHUNK_SIZE = 8 * 1024 * 1024 bytes, in MiB
UPLOAD_CHUNK_SIZE == 8

FileSizes == 0..MaxFileSize
ChunkSizes == (1..MaxChunkSize) \cup {UPLOAD_CHUNK_SIZE}

\* ------------------------------------------------------- the environment
\* fetch() either rejects (transport failure, NETERR) or resolves with a
\* status code.
NETERR == 0
StatusCodes == {200, 201, 308, 400, 503}
ChunkOutcomes == StatusCodes \cup {NETERR}

\* Response.ok
Ok(status) == status >= 200 /\ status <= 299

\* The session-start response: transport failure, !initRes.ok, ok without
\* the x-goog-upload-url header, ok with it.
InitResponses == {"NETERR", "NOT_OK", "NO_URL", "OK_URL"}

\* The JSON body of a completed upload or of a poll: unusable ("BAD": not
\* JSON, or no `file` object), or a state field that is one of the three
\* documented values or absent/unknown ("UNDEFINED").
FileStates == {"PROCESSING", "ACTIVE", "FAILED", "UNDEFINED"}
Bodies == FileStates \cup {"BAD"}

\* The readiness GET: rejects (NETERR) or resolves with a status.  The code
\* never looks at the status.  A successful response carries any body; an
\* unsuccessful one carries no file resource: an error object without a
\* state field ("UNDEFINED") or no JSON at all ("BAD").
PollOutcomes == {NETERR, 200, 404, 503}
PollBodies(status) ==
  IF status = NETERR THEN {"BAD"}
  ELSE IF Ok(status) THEN Bodies
  ELSE {"UNDEFINED", "BAD"}

\* The generation call: rejects ("ERROR"), or resolves with response.text
\* undefined ("NOTEXT"), empty or non-empty.
NoText == "NOTEXT"
GenResponses == {"ERROR", NoText, "", "some text"}

FALLBACK_TEXT == "No transcription generated."

GEMINI_PRO_MODEL == "gemini-2.0-flash-thinking-exp-01-21"
GEMINI_FLASH_MODEL == "gemini-2.0-flash-exp"
\* config.thinkingConfig = { thinkingBudget: 32768 }
THINKING_BUDGET == 32768
\* config without a thinkingConfig
NoBudget == 0

\* The mimeType argument and file.type: empty, or a media type.
MimeTypes == {"", "video/mp4"}
FileTypes == {"", "audio/webm"}

\* A URL string, as the sequence of its parts.  HOST is the scheme and host
\* the code prepends, a path starts with '/', '?' and '&' are the query
\* separators, KEY_PARAM is `key=${apiKey}`, and OTHER_KEY_PARAM is a query
\* parameter of the server whose name ends in 'key' (the text 'key=' occurs
\* in it, the credential does not).
HOST == "https://generativelanguage.googleapis.com"
PATH == "/upload/v1beta/files"
KEY_PARAM == "key=API_KEY"
UPLOAD_ID == "upload_id=1"
OTHER_KEY_PARAM == "upload_key=1"

\* The x-goog-upload-url header of a successful session start: absolute or
\* relative, with or without a query, with or without the credential.
DefaultUrl == <<HOST, PATH, "?", UPLOAD_ID>>
SessionUrls ==
  {DefaultUrl,
   <<HOST, PATH>>,
   <<HOST, PATH, "?", KEY_PARAM>>,
   <<HOST, PATH, "?", OTHER_KEY_PARAM>>,
   <<PATH, "?", UPLOAD_ID>>,
   <<PATH>>}

\* let resumableUrl, before the response header is read
NoUrl == <<>>

VARIABLES
  variant,      \* "A" or "B": which uploader is built
  sessionUrl,   \* the x-goog-upload-url header the server answers with
  apiKey,       \* TRUE iff process.env.API_KEY is set
  fileSize,     \* file.size
  chunkSize,    \* the chunk size C
  isComplex,    \* transcribeMedia: the isComplex argument
  mimeType,     \* transcribeMedia: the mimeType argument
  fileType,     \* file.type
  pc,           \* where the call is suspended
  offset,       \* uploadToGemini: let offset
  state,        \* uploadToGemini: let state ("NONE" before it is read)
  fileUri,      \* "NONE" until uploadData.file.uri is read
  resumableUrl, \* uploadToGemini: let resumableUrl
  chunkReqs,    \* history: the chunk requests sent
  chunkResps,   \* history: the outcome of each chunk request
  stateObs,     \* history: every value assigned to `state`
  progressSeq,  \* history: the calls of onProgress
  initReqs,     \* number of session-start requests sent
  initResp,     \* the session-start response ("NONE" before it arrives)
  waits,        \* number of setTimeout(2000) waits started
  pollReqs,     \* number of readiness requests sent
  pollResps,    \* history: the outcome (status) of each readiness request
  genReqs,      \* number of generateContent requests sent
  genReq,       \* the generateContent request (all "NONE" before it is sent)
  genResp,      \* the generation response ("NONE" before it arrives)
  error,        \* the error the call threw ("NONE" if none)
  errOffset,    \* the offset in the "Upload failed at offset" message
  result,       \* the string the call returned ("NONE" before it returns)
  \* --- the App (src/unnamed/part_002 lines 10-73) and the calls it makes
  appState,       \* useState<AppState>
  uploadedFile,   \* useState<UploadedFile | null>
  transcription,  \* useState<string>
  appError,       \* useState<string | null>: `error`
  uploadProgress, \* useState<number>
  calls,          \* the transcribeMedia calls made by startTranscription
  inputs,         \* history: the events each call has received
  abandoned       \* history: the calls that were in flight at a handleReset

config == <<variant, sessionUrl, apiKey, fileSize, chunkSize, isComplex, mimeType, fileType>>
vars == <<variant, sessionUrl, apiKey, fileSize, chunkSize, isComplex, mimeType,
          fileType, pc, offset, state, fileUri, resumableUrl,
          chunkReqs, chunkResps, stateObs, progressSeq, initReqs, initResp,
          waits, pollReqs, pollResps, genReqs, genReq, genResp, error, errOffset, result,
          appState, uploadedFile, transcription, appError, uploadProgress,
          calls, inputs, abandoned>>
appVars == <<appState, uploadedFile, transcription, appError, uploadProgress,
             calls, inputs, abandoned>>
callVars == <<variant, sessionUrl, apiKey, fileSize, chunkSize, isComplex, mimeType,
          fileType, pc, offset, state, fileUri, resumableUrl,
          chunkReqs, chunkResps, stateObs, progressSeq, initReqs, initResp,
          waits, pollReqs, pollResps, genReqs, genReq, genResp, error, errOffset, result>>

\* --------------------------------------------------------- pure helpers

\* Math.round(x / y) for naturals x, y > 0
RoundDiv(x, y) == (2 * x + y) \div (2 * y)

Min(a, b) == IF a < b THEN a ELSE b

ChunkEnd_NoMin(off, size) == off + chunkSize
ChunkEnd_OneUnit(off, size) == Min(off + 1, size)
\* const chunkEnd = Math.min(offset + UPLOAD_CHUNK_SIZE, file.size)
ChunkEnd(off, size) == Min(off + chunkSize, size)

Progress_NoCap(off, size) == RoundDiv(off * 100, size)
\* const progress = Math.min(Math.round((offset / file.size) * 100), 99)
Progress(off, size) == Min(RoundDiv(off * 100, size), 99)

KeyMissing_Never(key) == FALSE
\* if (!apiKey) throw ...
KeyMissing(key) == ~key

InitFails_OnlyStatus(r) == r = "NOT_OK"
\* if (!initRes.ok) throw ...; if (!resumableUrl) throw ...
InitFails(r) == r \in {"NOT_OK", "NO_URL"}

ChunkRejected_RangeStyle(v, status) == status # 308 /\ ~Ok(status)
\* A: if (!uploadRes.ok) throw
\* B: if (uploadRes.status !== 308 && !uploadRes.ok) throw
ChunkRejected(v, status) ==
  IF v = "A" THEN ~Ok(status) ELSE status # 308 /\ ~Ok(status)

UploadComplete_LastChunk(v, status, isLastChunk) == isLastChunk
\* A: if (isLastChunk)
\* B: if (uploadRes.ok && uploadRes.status !== 308)
UploadComplete(v, status, isLastChunk) ==
  IF v = "A" THEN isLastChunk ELSE Ok(status) /\ status # 308

\* resumableUrl.startsWith('/')
StartsWithSlash(u) == u # <<>> /\ Head(u) = PATH

\* String.prototype.includes, for the texts the code looks for
IncludesQuestionMark(u) == \E i \in DOMAIN u : u[i] = "?"
IncludesKeyEq(u) == \E i \in DOMAIN u : u[i] \in {KEY_PARAM, OTHER_KEY_PARAM}

\* A only: if (resumableUrl.startsWith('/')) resumableUrl = host + resumableUrl
\* A and B: if (!resumableUrl.includes('key=')) resumableUrl +=
\*   (resumableUrl.includes('?') ? '&' : '?') + `key=${apiKey}`
ResumableUrl(v, u) ==
  LET u1 == IF v = "A" /\ StartsWithSlash(u) THEN <<HOST>> \o u ELSE u
  IN IF ~IncludesKeyEq(u1)
     THEN u1 \o <<IF IncludesQuestionMark(u1) THEN "&" ELSE "?", KEY_PARAM>>
     ELSE u1

\* while (state === 'PROCESSING')
PollAgain(s) == s = "PROCESSING"

TextOrFallback_Raw(text) == IF text = NoText THEN "" ELSE text
\* return response.text || "No transcription generated."
TextOrFallback(text) == IF text = NoText \/ text = "" THEN FALLBACK_TEXT ELSE text

ChunkRequest_AlwaysFinalize(off, size) ==
  [offset   |-> off,
   end      |-> ChunkEnd(off, size),
   finalize |-> variant = "A",
   rangeEnd |-> ChunkEnd(off, size) - 1,
   total    |-> size]
\* const safeMimeType = mimeType || file.type || 'application/octet-stream'
SafeMimeType(m, ft) ==
  IF m # "" THEN m ELSE IF ft # "" THEN ft ELSE "application/octet-stream"

\* const modelId = isComplex ? GEMINI_PRO_MODEL : GEMINI_FLASH_MODEL
ModelId(c) == IF c THEN GEMINI_PRO_MODEL ELSE GEMINI_FLASH_MODEL

ThinkingBudget_Always(c) == THINKING_BUDGET
\* if (isComplex) config.thinkingConfig = { thinkingBudget: 32768 }
ThinkingBudget(c) == IF c THEN THINKING_BUDGET ELSE NoBudget

NoRequest ==
  [model |-> "NONE", thinkingBudget |-> NoBudget, mimeType |-> "NONE",
   fileUri |-> "NONE"]

\* ai.models.generateContent({ model, contents: { parts: [{ fileData:
\* { mimeType: safeMimeType, fileUri } }, ...] }, config })
GenRequest(uri, c, m, ft) ==
  [model          |-> ModelId(c),
   thinkingBudget |-> ThinkingBudget(c),
   mimeType       |-> SafeMimeType(m, ft),
   fileUri        |-> uri]

ChunkRequest_NeverFinalize(off, size) ==
  [offset   |-> off,
   end      |-> ChunkEnd(off, size),
   finalize |-> FALSE,
   rangeEnd |-> ChunkEnd(off, size) - 1,
   total    |-> size]
ChunkRequest_ExclusiveEnd(off, size) ==
  [offset   |-> off,
   end      |-> ChunkEnd(off, size),
   finalize |-> variant = "A" /\ ChunkEnd(off, size) = size,
   rangeEnd |-> ChunkEnd(off, size),
   total    |-> size]
\* The request built by one iteration of the chunk loop.
\* A: X-Goog-Upload-Offset and X-Goog-Upload-Command ('upload, finalize'
\*    iff isLastChunk);  B: Content-Range: bytes off-(end-1)/size.
ChunkRequest(off, size) ==
  [offset   |-> off,
   end      |-> ChunkEnd(off, size),
   finalize |-> variant = "A" /\ ChunkEnd(off, size) = size,
   rangeEnd |-> ChunkEnd(off, size) - 1,
   total    |-> size]

\* ------------------------------------------- the call's control state
\* A call is a record: the arguments of transcribeMedia (size and type of
\* `file`, mimeType, isComplex) and the locals and histories of the call.
Cur ==
  [size |-> fileSize, isComplex |-> isComplex, mimeType |-> mimeType,
   fileType |-> fileType,
   pc |-> pc, offset |-> offset, state |-> state, fileUri |-> fileUri,
   resumableUrl |-> resumableUrl,
   chunkReqs |-> chunkReqs, chunkResps |-> chunkResps, stateObs |-> stateObs,
   progressSeq |-> progressSeq, initReqs |-> initReqs, initResp |-> initResp,
   waits |-> waits, pollReqs |-> pollReqs, pollResps |-> pollResps,
   genReqs |-> genReqs,
   genReq |-> genReq, genResp |-> genResp, error |-> error, errOffset |-> errOffset,
   result |-> result]

Becomes(s) ==
  /\ pc' = s.pc /\ offset' = s.offset /\ state' = s.state
  /\ fileUri' = s.fileUri /\ chunkReqs' = s.chunkReqs
  /\ resumableUrl' = s.resumableUrl
  /\ chunkResps' = s.chunkResps /\ stateObs' = s.stateObs
  /\ progressSeq' = s.progressSeq /\ initReqs' = s.initReqs
  /\ initResp' = s.initResp /\ waits' = s.waits /\ pollReqs' = s.pollReqs
  /\ pollResps' = s.pollResps
  /\ genReqs' = s.genReqs /\ genReq' = s.genReq /\ genResp' = s.genResp /\ error' = s.error
  /\ errOffset' = s.errOffset /\ result' = s.result
  /\ UNCHANGED config
  /\ UNCHANGED appVars

\* throw new Error(...): the call rejects, nothing after it runs.
Throw(s, e) == [s EXCEPT !.pc = "threw", !.error = e]

\* onProgress(p), called from uploadToGemini ("upload") or from
\* transcribeMedia ("transcribe")
Emit(s, p, who) ==
  [s EXCEPT !.progressSeq = Append(@, [percent |-> p, by |-> who])]

\* uploadToGemini returns fileUri; transcribeMedia then calls
\* onProgress(100) and ai.models.generateContent(...), and suspends.
Returns(s) ==
  [Emit(s, 100, "transcribe") EXCEPT !.pc = "generate", !.genReqs = @ + 1,
                                     !.genReq = GenRequest(s.fileUri,
                                        s.isComplex, s.mimeType, s.fileType)]

PollHead_GiveUp(s) ==
  IF PollAgain(s.state) /\ s.pollReqs < 1
  THEN [s EXCEPT !.pc = "wait", !.waits = @ + 1]
  ELSE Returns(s)
PollHead_DoWhile(s) ==
  IF PollAgain(s.state) \/ s.pollReqs = 0
  THEN [s EXCEPT !.pc = "wait", !.waits = @ + 1]
  ELSE Returns(s)
\* while (state === 'PROCESSING') { await new Promise(setTimeout 2000) ...
\* } return fileUri
PollHead(s) ==
  IF PollAgain(s.state)
  THEN [s EXCEPT !.pc = "wait", !.waits = @ + 1]
  ELSE Returns(s)

LoopHead_ReturnEmpty(s) ==
  IF s.offset < s.size
  THEN [s EXCEPT !.pc = "chunkFetch",
                 !.chunkReqs = Append(@, ChunkRequest(s.offset, s.size))]
  ELSE Returns(s)
LoopHead_EmitFirst(s) ==
  IF s.offset < s.size
  THEN [Emit(s, Progress(s.offset, s.size), "upload") EXCEPT
          !.pc = "chunkFetch",
          !.chunkReqs = Append(@, ChunkRequest(s.offset, s.size))]
  ELSE Throw(s, "LoopFinished")
\* while (offset < file.size) { ... await fetch(resumableUrl, chunk) ... }
\* throw new Error("Upload loop finished without returning URI")
LoopHead(s) ==
  IF s.offset < s.size
  THEN [s EXCEPT !.pc = "chunkFetch",
                 !.chunkReqs = Append(@, ChunkRequest(s.offset, s.size))]
  ELSE Throw(s, "LoopFinished")

Advance_SkipOne(s, chunkEnd) == [s EXCEPT !.offset = chunkEnd + 1]
\* offset = chunkEnd
Advance(s, chunkEnd) == [s EXCEPT !.offset = chunkEnd]

\* let state = uploadData.file.state / state = checkData.state
Observe(s, st) == [s EXCEPT !.state = st, !.stateObs = Append(@, st)]

\* ---------------------------------------------------------------- Init
\* The call before transcribeMedia is entered.
InitCall ==
  /\ pc = "idle"
  /\ offset = 0
  /\ state = "NONE"
  /\ fileUri = "NONE"
  /\ resumableUrl = NoUrl
  /\ chunkReqs = <<>>
  /\ chunkResps = <<>>
  /\ stateObs = <<>>
  /\ progressSeq = <<>>
  /\ initReqs = 0
  /\ initResp = "NONE"
  /\ waits = 0
  /\ pollReqs = 0
  /\ pollResps = <<>>
  /\ genReqs = 0
  /\ genReq = NoRequest
  /\ genResp = "NONE"
  /\ error = "NONE"
  /\ errOffset = -1
  /\ result = "NONE"

\* The same, as a record: a call with the given arguments, not yet entered.
IdleCall(size, c, m, ft) ==
  [size |-> size, isComplex |-> c, mimeType |-> m, fileType |-> ft,
   pc |-> "idle", offset |-> 0, state |-> "NONE", fileUri |-> "NONE",
   resumableUrl |-> NoUrl,
   chunkReqs |-> <<>>, chunkResps |-> <<>>, stateObs |-> <<>>,
   progressSeq |-> <<>>, initReqs |-> 0, initResp |-> "NONE",
   waits |-> 0, pollReqs |-> 0, pollResps |-> <<>>,
   genReqs |-> 0, genReq |-> NoRequest, genResp |-> "NONE",
   error |-> "NONE", errOffset |-> -1, result |-> "NONE"]

\* ---------------------------------------------------------------- the App
\* The two calls of the concurrency claims.
CallIds == {1, 2}

\* uploadedFile: null, or what FileUpload.processFile hands to
\* handleFileSelected (a video/* or audio/* file).
NoFile == [type |-> "none", mimeType |-> "", size |-> 0]
\* The files the user has: a one-chunk audio recording and a longer video.
Files ==
  {[type |-> "audio", mimeType |-> "audio/webm", size |-> 1],
   [type |-> "video", mimeType |-> "video/mp4", size |-> MaxAppFileSize]}

\* error === null
NoError == "NULL"

\* The server as the App's calls see it: the responses that make a call
\* continue, complete, fail or poll (a subset of the responses above, which
\* the single-call specification explores in full).
AppInitResponses == {"NOT_OK", "OK_URL"}
AppChunkOutcomes == {200, 308, 503}
AppBodies == {"PROCESSING", "ACTIVE"}
AppPollBodies == {"PROCESSING", "ACTIVE", "FAILED"}
AppGenResponses == {"ERROR", "some text"}

\* A slot of `calls` that startTranscription has not used yet.
NotStarted == IdleCall(0, FALSE, "", "")

\* The App as first rendered: the useState initial values.
InitApp ==
  /\ appState = "IDLE"
  /\ uploadedFile = NoFile
  /\ transcription = ""
  /\ appError = NoError
  /\ uploadProgress = 0
  /\ calls = [c \in CallIds |-> NotStarted]
  /\ inputs = [c \in CallIds |-> <<>>]
  /\ abandoned = {}

Init ==
  /\ InitApp
  /\ variant \in {"A", "B"}
  /\ sessionUrl = DefaultUrl
  /\ apiKey \in BOOLEAN
  /\ fileSize \in FileSizes
  /\ chunkSize \in ChunkSizes
  /\ isComplex \in BOOLEAN
  /\ mimeType \in MimeTypes
  /\ fileType \in FileTypes
  /\ InitCall

\* ------------------------------------------------------------ handlers
\* Each handler maps the call's record and the event received to the call's
\* record at its next await (or at its return or throw).

\* transcribeMedia is called: the credential check, then uploadToGemini up
\* to its first await (the session-start fetch).
OnCall(s) ==
  IF KeyMissing(apiKey)
  THEN Throw(s, "ConfigError")
  ELSE [s EXCEPT !.pc = "initFetch", !.initReqs = @ + 1]

\* The session-start fetch settles: the ok / URL checks, let offset = 0 and
\* the first test of the chunk loop.
OnInitResponse(s, r) ==
  LET s0 == [s EXCEPT !.initResp = r] IN
  IF r = "NETERR" THEN Throw(s0, "NetworkError")
  ELSE IF InitFails(r) THEN Throw(s0, "InitError")
  ELSE LoopHead([s0 EXCEPT !.offset = 0,
                           !.resumableUrl = ResumableUrl(variant, sessionUrl)])

\* The fetch of the chunk in flight settles: the status check, offset =
\* chunkEnd, onProgress(progress), and either the completion branch (read
\* the body, enter the poll loop) or the next test of the chunk loop.
OnChunkResponse(s, status, body) ==
  LET req == s.chunkReqs[Len(s.chunkReqs)]
      isLastChunk == req.end = s.size
      s0 == [s EXCEPT !.chunkResps = Append(@, status)]
      s1 == Emit(Advance(s0, req.end), Progress(req.end, s.size), "upload")
  IN
  IF status = NETERR THEN Throw(s0, "NetworkError")
  ELSE IF ChunkRejected(variant, status)
    THEN [Throw(s0, "UploadError") EXCEPT !.errOffset = s0.offset]
  ELSE IF UploadComplete(variant, status, isLastChunk)
    THEN IF body = "BAD"
         THEN Throw(s1, "ParseError")
         ELSE PollHead(Observe([s1 EXCEPT !.fileUri = "URI"], body))
  ELSE LoopHead(s1)

\* The 2000 ms timer fires: the readiness request is sent.
OnPollTimer(s) == [s EXCEPT !.pc = "pollFetch", !.pollReqs = @ + 1]

\* The readiness request settles: state = checkData.state, the FAILED
\* check, and the next test of the poll loop.
OnPollResponse(s, status, body) ==
  LET s0 == [s EXCEPT !.pollResps = Append(@, status)] IN
  IF status = NETERR THEN Throw(s0, "NetworkError")
  ELSE IF body = "BAD" THEN Throw(s0, "ParseError")
  ELSE IF body = "FAILED"
    THEN Throw(Observe(s0, body), "ProcessingFailed")
  ELSE PollHead(Observe(s0, body))

\* generateContent settles: return response.text || fallback, or the catch
\* block rethrows.
OnGenResponse(s, r) ==
  LET s0 == [s EXCEPT !.genResp = r] IN
  IF r = "ERROR"
  THEN Throw(s0, "GenerationError")
  ELSE [s0 EXCEPT !.pc = "returned", !.result = TextOrFallback(r)]

\* -------------------------------------------------------------- actions
\* One call of transcribeMedia by a caller that records what it receives.

transcribeMedia ==
  /\ pc = "idle"
  /\ Becomes(OnCall(Cur))

InitResponse ==
  /\ pc = "initFetch"
  /\ \E r \in InitResponses : Becomes(OnInitResponse(Cur, r))

ChunkResponse ==
  /\ pc = "chunkFetch"
  /\ \E status \in ChunkOutcomes, body \in Bodies :
       Becomes(OnChunkResponse(Cur, status, body))

PollTimer ==
  /\ pc = "wait"
  /\ Becomes(OnPollTimer(Cur))

\* The server stops answering PROCESSING after MaxPolls polls.
PollResponse ==
  /\ pc = "pollFetch"
  /\ \E status \in PollOutcomes :
     \E body \in PollBodies(status) :
       /\ body = "PROCESSING" => pollReqs < MaxPolls
       /\ Becomes(OnPollResponse(Cur, status, body))

GenResponse ==
  /\ pc = "generate"
  /\ \E r \in GenResponses : Becomes(OnGenResponse(Cur, r))

Next ==
  \/ transcribeMedia
  \/ InitResponse
  \/ ChunkResponse
  \/ PollTimer
  \/ PollResponse
  \/ GenResponse

Spec == Init /\ [][Next]_vars

\* Every fetch settles and every timer fires: a pending await of the call is
\* eventually resumed.  (Whether transcribeMedia is called at all is up to
\* the caller.)
Settles ==
  /\ WF_vars(InitResponse)
  /\ WF_vars(ChunkResponse)
  /\ WF_vars(PollTimer)
  /\ WF_vars(PollResponse)
  /\ WF_vars(GenResponse)

SpecLive == Init /\ [][Next]_vars /\ Settles

\* The end-to-end scenario: the command-style uploader, a 20 MiB file and
\* the program's 8 MiB chunk size, every server behaviour.
InitE2E ==
  /\ InitCall
  /\ InitApp
  /\ variant = "A"
  /\ sessionUrl = DefaultUrl
  /\ apiKey = TRUE
  /\ fileSize = 20
  /\ chunkSize = UPLOAD_CHUNK_SIZE
  /\ isComplex \in BOOLEAN
  /\ mimeType \in MimeTypes
  /\ fileType \in FileTypes

SpecE2E == InitE2E /\ [][Next]_vars

\* The session URLs a server may answer with, for a file of at most two
\* one-unit chunks.
InitUrl ==
  /\ InitCall
  /\ InitApp
  /\ variant \in {"A", "B"}
  /\ sessionUrl \in SessionUrls
  /\ apiKey \in BOOLEAN
  /\ fileSize \in 0..MaxUrlFileSize
  /\ chunkSize = 1
  /\ isComplex = FALSE
  /\ mimeType = ""
  /\ fileType = ""

SpecUrl == InitUrl /\ [][Next]_vars

\* ------------------------------------------------------ the App's actions

AppRec ==
  [appState |-> appState, uploadedFile |-> uploadedFile,
   transcription |-> transcription, appError |-> appError,
   uploadProgress |-> uploadProgress]

AppBecomes(a) ==
  /\ appState' = a.appState /\ uploadedFile' = a.uploadedFile
  /\ transcription' = a.transcription /\ appError' = a.appError
  /\ uploadProgress' = a.uploadProgress

\* The button and the inputs are disabled
Busy(a) == a.appState = "PROCESSING" \/ a.appState = "UPLOADING"

\* The call has been entered and has neither returned nor thrown.
InFlight(s) == s.pc \notin {"idle", "returned", "threw"}

\* What a step of a call does to the App: (progress) =>
\* setUploadProgress(progress) for every onProgress call of the step, and
\* when the promise settles, setTranscription(result);
\* setAppState(COMPLETE), or in the catch block setError(err.message);
\* setAppState(ERROR).
AfterCallStep(a, s, s2) ==
  LET a1 == IF Len(s2.progressSeq) > Len(s.progressSeq)
            THEN [a EXCEPT !.uploadProgress =
                              s2.progressSeq[Len(s2.progressSeq)].percent]
            ELSE a
  IN IF s2.pc = "returned"
     THEN [a1 EXCEPT !.transcription = s2.result, !.appState = "COMPLETE"]
     ELSE IF s2.pc = "threw"
     THEN [a1 EXCEPT !.appError = s2.error, !.appState = "ERROR"]
     ELSE a1

Store_SharedOffset(c, s) ==
  [d \in CallIds |->
     IF d = c THEN s ELSE [calls[d] EXCEPT !.offset = s.offset]]
\* The locals of a call (let offset, let state, ...) belong to that call.
Store(c, s) == [calls EXCEPT ![c] = s]

\* An event delivered to a call.
Event(kind, status, body) == [kind |-> kind, status |-> status, body |-> body]

\* Call c receives event e and runs to its next await: s2 is its record
\* there.
CallStep(c, e, s2) ==
  /\ calls' = Store(c, s2)
  /\ inputs' = [inputs EXCEPT ![c] = Append(@, e)]
  /\ AppBecomes(AfterCallStep(AppRec, calls[c], s2))
  /\ UNCHANGED <<abandoned, callVars>>

handleFileSelected ==
  /\ uploadedFile = NoFile
  /\ ~Busy(AppRec)
  /\ \E f \in Files :
       AppBecomes([AppRec EXCEPT !.uploadedFile = f, !.appState = "IDLE",
                                 !.uploadProgress = 0])
  /\ UNCHANGED <<calls, inputs, abandoned, callVars>>

handleReset ==
  /\ uploadedFile # NoFile
  /\ AppBecomes([AppRec EXCEPT !.uploadedFile = NoFile, !.transcription = "",
                               !.appState = "IDLE", !.uploadProgress = 0,
                               !.appError = NoError])
  /\ abandoned' = abandoned \cup {c \in CallIds : InFlight(calls[c])}
  /\ UNCHANGED <<calls, inputs, callVars>>

\* The Start button: the three setters, then transcribeMedia(file,
\* mimeType, isComplexModel, setUploadProgress) up to its first await.
startTranscription ==
  /\ uploadedFile # NoFile
  /\ ~Busy(AppRec)
  /\ \E c \in CallIds :
       /\ calls[c].pc = "idle"
       /\ \A d \in CallIds : d < c => calls[d].pc # "idle"
       /\ LET s  == IdleCall(uploadedFile.size, uploadedFile.type = "video",
                             uploadedFile.mimeType, uploadedFile.mimeType)
              s2 == OnCall(s)
              a  == [AppRec EXCEPT !.appState = "UPLOADING",
                                   !.uploadProgress = 0, !.appError = NoError]
          IN /\ calls' = Store(c, s2)
             /\ inputs' = [inputs EXCEPT ![c] = <<Event("call", NETERR, "")>>]
             /\ AppBecomes(AfterCallStep(a, s, s2))
  /\ UNCHANGED <<abandoned, callVars>>

CallInitResponse(c) ==
  /\ calls[c].pc = "initFetch"
  /\ \E r \in AppInitResponses :
       CallStep(c, Event("init", NETERR, r), OnInitResponse(calls[c], r))

CallChunkResponse(c) ==
  /\ calls[c].pc = "chunkFetch"
  /\ \E status \in AppChunkOutcomes, body \in AppBodies :
       CallStep(c, Event("chunk", status, body),
                OnChunkResponse(calls[c], status, body))

CallPollTimer(c) ==
  /\ calls[c].pc = "wait"
  /\ CallStep(c, Event("timer", NETERR, ""), OnPollTimer(calls[c]))

CallPollResponse(c) ==
  /\ calls[c].pc = "pollFetch"
  /\ \E body \in AppPollBodies :
       /\ body = "PROCESSING" => calls[c].pollReqs < MaxAppPolls
       /\ CallStep(c, Event("poll", 200, body),
                   OnPollResponse(calls[c], 200, body))

CallGenResponse(c) ==
  /\ calls[c].pc = "generate"
  /\ \E r \in AppGenResponses :
       CallStep(c, Event("gen", NETERR, r), OnGenResponse(calls[c], r))

NextApp ==
  \/ handleFileSelected
  \/ handleReset
  \/ startTranscription
  \/ \E c \in CallIds : CallInitResponse(c)
  \/ \E c \in CallIds : CallChunkResponse(c)
  \/ \E c \in CallIds : CallPollTimer(c)
  \/ \E c \in CallIds : CallPollResponse(c)
  \/ \E c \in CallIds : CallGenResponse(c)

\* The single-call variables are not used by the App: they stay as below.
InitAppSpec ==
  /\ InitApp
  /\ InitCall
  /\ variant \in {"A", "B"}
  /\ sessionUrl = DefaultUrl
  /\ apiKey \in BOOLEAN
  /\ chunkSize = 1
  /\ fileSize = 0
  /\ isComplex = FALSE
  /\ mimeType = ""
  /\ fileType = ""

SpecApp == InitAppSpec /\ [][NextApp]_vars

\* ================================================================ claims

CeilDiv(a, b) == (a + b - 1) \div b

RECURSIVE SumLen(_)
SumLen(reqs) ==
  IF reqs = <<>> THEN 0
  ELSE (Head(reqs).end - Head(reqs).offset) + SumLen(Tail(reqs))

\* What the protocol variant calls an accepted chunk: under A any 2xx
\* (generic success, or the created resource for the final chunk); under B
\* 308 for an intermediate chunk and 200/201 for the final one.
Continue(v, status) == IF v = "A" THEN Ok(status) ELSE status = 308
Complete(v, status) == IF v = "A" THEN Ok(status) ELSE status \in {200, 201}

\* The server answered 'continue' to every non-final chunk and 'complete'
\* to the final one.
Cooperative ==
  /\ initResp = "OK_URL"
  /\ \A i \in 1..Len(chunkResps) :
       IF chunkReqs[i].end >= fileSize
       THEN Complete(variant, chunkResps[i])
       ELSE Continue(variant, chunkResps[i])

\* uploadToGemini has left its chunk loop.
LoopExited == initResp = "OK_URL" /\ pc # "chunkFetch"

\* uploadToGemini has returned fileUri to transcribeMedia.
UploadReturned == pc \in {"generate", "returned"} \/ error = "GenerationError"

Count100 == Cardinality({i \in DOMAIN progressSeq : progressSeq[i].percent = 100})

ProcCount == Cardinality({i \in DOMAIN stateObs : stateObs[i] = "PROCESSING"})

\* C1: with a cooperative server, an upload run sends exactly
\* ceil(fileSize / chunkSize) chunk requests and the chunk lengths sum to
\* fileSize, in both uploaders.
C1_ChunkCountAndSum ==
  (LoopExited /\ Cooperative) =>
     /\ Len(chunkReqs) = CeilDiv(fileSize, chunkSize)
     /\ SumLen(chunkReqs) = fileSize

C1_Witness ==
  /\ LoopExited /\ Cooperative
  /\ fileSize = 5 /\ chunkSize = 2
  /\ Len(chunkReqs) = 3
  /\ chunkReqs[3].end - chunkReqs[3].offset = 1

\* C2: the values passed to onProgress are non-decreasing, and every value
\* emitted by the upload loop is an integer in 0..99.
C2_ProgressMonotoneCapped ==
  /\ \A i, j \in DOMAIN progressSeq :
       i < j => progressSeq[i].percent <= progressSeq[j].percent
  /\ \A i \in DOMAIN progressSeq :
       progressSeq[i].by = "upload" => progressSeq[i].percent \in 0..99

C2_Witness ==
  /\ pc = "returned"
  /\ Len(progressSeq) = 4
  /\ progressSeq[1].percent = 33
  /\ progressSeq[3].percent = 99
  /\ progressSeq[4].percent = 100

\* C3 (as claimed): onProgress(100) is emitted exactly once when upload and
\* readiness succeed, only after the state has been observed ACTIVE, and
\* never in a call that fails in initiation, chunk upload or readiness.
C3_Original ==
  /\ UploadReturned => Count100 = 1
  /\ Count100 > 0 => \E i \in DOMAIN stateObs : stateObs[i] = "ACTIVE"
  /\ (pc = "threw" /\ error # "GenerationError") => Count100 = 0

C5_InitFailureStopsEverything ==
  initResp \in {"NOT_OK", "NO_URL"} =>
    /\ pc = "threw" /\ error = "InitError"
    /\ chunkReqs = <<>> /\ progressSeq = <<>>
    /\ waits = 0 /\ pollReqs = 0 /\ genReqs = 0

C5_Witness == initResp = "NO_URL" /\ pc = "threw" /\ fileSize > 0

\* C6: without a credential the call fails with a configuration error and
\* makes no session-start, chunk, poll or generation request and no
\* onProgress call.
C6_MissingKeyNoNetwork ==
  ~apiKey =>
    /\ pc \in {"idle", "threw"}
    /\ pc = "threw" => error = "ConfigError"
    /\ initReqs = 0 /\ chunkReqs = <<>> /\ pollReqs = 0 /\ genReqs = 0
    /\ progressSeq = <<>>

C6_Witness == ~apiKey /\ pc = "threw" /\ error = "ConfigError"

\* C7 (as claimed): whenever the state is reported FAILED, in the
\* final-chunk response or in a poll, the call fails with the
\* processing-failed error and makes no generation call.
C7_Original ==
  (\E i \in DOMAIN stateObs : stateObs[i] = "FAILED") =>
    /\ pc = "threw" /\ error = "ProcessingFailed"
    /\ genReqs = 0

\* C8: one wait per observation of PROCESSING: the number of waits equals
\* the number of PROCESSING observations, every wait is followed by
\* exactly one poll request, and a handle that is ACTIVE at once causes no
\* wait and no poll.
C8_OneWaitPerProcessing ==
  /\ waits = ProcCount
  /\ pollReqs = (IF pc = "wait" THEN waits - 1 ELSE waits)
  /\ (stateObs # <<>> /\ stateObs[1] = "ACTIVE") => (waits = 0 /\ pollReqs = 0)
  /\ (UploadReturned /\ state = "ACTIVE") =>
        (waits = Len(stateObs) - 1 /\ pollReqs = Len(stateObs) - 1)

C8_Witness ==
  /\ UploadReturned
  /\ stateObs = <<"PROCESSING", "PROCESSING", "ACTIVE">>
  /\ waits = 2 /\ pollReqs = 2

\* C9 (as claimed): the generation request is issued at most once, and only
\* when the last observed state is ACTIVE.
C9_Original ==
  /\ genReqs <= 1
  /\ genReqs > 0 => state = "ACTIVE"

\* C10: when generation succeeds with empty or missing text the call
\* returns the literal fallback; the call never returns an empty string.
C10_FallbackText ==
  pc = "returned" =>
    /\ result # ""
    /\ genResp \in {"", NoText} => result = "No transcription generated."

C10_Witness ==
  pc = "returned" /\ genResp = "" /\ result = "No transcription generated."

\* C11: variant A, a 20 MiB file, 8 MiB chunks, a cooperative server and a
\* successful generation: exactly 3 chunk requests of 8, 8 and 4 MiB at
\* offsets 0, 8 and 16, only the last marked finalize; the progress
\* sequence is strictly increasing and ends at 100; the text returned is
\* not empty.
C11_EndToEnd20MiB ==
  (/\ variant = "A" /\ fileSize = 20 /\ chunkSize = UPLOAD_CHUNK_SIZE
   /\ Cooperative /\ pc = "returned") =>
     /\ Len(chunkReqs) = 3
     /\ <<chunkReqs[1].offset, chunkReqs[2].offset, chunkReqs[3].offset>>
          = <<0, 8, 16>>
     /\ <<chunkReqs[1].end, chunkReqs[2].end, chunkReqs[3].end>>
          = <<8, 16, 20>>
     /\ <<chunkReqs[1].finalize, chunkReqs[2].finalize, chunkReqs[3].finalize>>
          = <<FALSE, FALSE, TRUE>>
     /\ \A i \in 1..(Len(progressSeq) - 1) :
          progressSeq[i].percent < progressSeq[i + 1].percent
     /\ progressSeq[Len(progressSeq)].percent = 100
     /\ result # "" /\ result # "NONE"

C11_Witness ==
  /\ variant = "A" /\ fileSize = 20 /\ chunkSize = UPLOAD_CHUNK_SIZE
  /\ Cooperative /\ pc = "returned"
  /\ Len(progressSeq) = 4
  /\ progressSeq[1].percent = 40 /\ progressSeq[2].percent = 80
  /\ result = "some text"

\* C16 (as claimed): the first value delivered to onProgress is 0.
C16_Original ==
  progressSeq # <<>> => progressSeq[1].percent = 0

\* C16 (amended): onProgress is not called before the first chunk has been
\* accepted, and the first value delivered is that chunk's percentage,
\* min(round(100 * end / fileSize), 99).
C16_FirstProgressAfterFirstChunk ==
  progressSeq # <<>> =>
    /\ chunkResps # <<>>
    /\ chunkResps[1] # NETERR
    /\ Continue(variant, chunkResps[1]) \/ Complete(variant, chunkResps[1])
    /\ progressSeq[1].by = "upload"
    /\ progressSeq[1].percent =
         Min(RoundDiv(100 * chunkReqs[1].end, fileSize), 99)

C16_Witness ==
  /\ Len(progressSeq) = 1 /\ progressSeq[1].percent = 33
  /\ Len(chunkResps) = 1 /\ pc = "chunkFetch"

\* C17: chunk requests are sent one at a time and in increasing offset
\* order: at most one is unanswered, the first starts at offset 0, each
\* later one starts where the previous (accepted) one ended, and no byte is
\* sent twice or skipped.
C17_SequentialContiguous ==
  /\ Len(chunkReqs) - Len(chunkResps) = (IF pc = "chunkFetch" THEN 1 ELSE 0)
  /\ chunkReqs # <<>> => chunkReqs[1].offset = 0
  /\ \A i \in 1..(Len(chunkReqs) - 1) :
       /\ chunkReqs[i + 1].offset = chunkReqs[i].end
       /\ chunkReqs[i].offset < chunkReqs[i + 1].offset
       /\ chunkResps[i] # NETERR
       /\ ~ChunkRejected(variant, chunkResps[i])

C17_Witness ==
  /\ Len(chunkReqs) = 3 /\ pc = "chunkFetch"
  /\ chunkReqs[3].offset = 4 /\ chunkSize = 2

\* C18 (as claimed): whenever an upload run has returned a URI, offset
\* equals the file size, whatever the server answered.
C18_Original ==
  fileUri # "NONE" => offset = fileSize

\* C19: the chunk loop runs at most ceil(fileSize / chunkSize) iterations,
\* and offset strictly increases in every iteration that does not end the
\* run.
C19_LoopBounded ==
  /\ [](Len(chunkReqs) <= CeilDiv(fileSize, chunkSize))
  /\ [][(pc = "chunkFetch" /\ pc' = "chunkFetch") => offset' > offset]_vars

C19_Witness ==
  /\ fileSize = 5 /\ chunkSize = 2 /\ Len(chunkReqs) = 3
  /\ offset = 4 /\ pc = "chunkFetch"

\* C20: every chunk has 0 <= offset < end <= fileSize; every chunk but the
\* last one sent has length chunkSize, the last one a length in
\* 1..chunkSize.
C20_ChunkBounds ==
  \A i \in DOMAIN chunkReqs :
    /\ 0 <= chunkReqs[i].offset
    /\ chunkReqs[i].offset < chunkReqs[i].end
    /\ chunkReqs[i].end <= fileSize
    /\ i < Len(chunkReqs) => chunkReqs[i].end - chunkReqs[i].offset = chunkSize
    /\ chunkReqs[i].end - chunkReqs[i].offset \in 1..chunkSize

C20_Witness ==
  /\ fileSize = 5 /\ chunkSize = 3 /\ Len(chunkReqs) = 2
  /\ chunkReqs[2].offset = 3 /\ chunkReqs[2].end = 5

\* C15 (as claimed): the generation request selects the deep model with
\* the extended reasoning budget exactly when the complexity hint is true
\* and the fast model without a budget exactly when it is false, and it
\* references the uploaded URI and the caller's mime type.
C15_Original ==
  genReqs > 0 =>
    /\ isComplex => (genReq.model = GEMINI_PRO_MODEL
                     /\ genReq.thinkingBudget = THINKING_BUDGET)
    /\ ~isComplex => (genReq.model = GEMINI_FLASH_MODEL
                      /\ genReq.thinkingBudget = NoBudget)
    /\ genReq.fileUri = fileUri /\ fileUri # "NONE"
    /\ genReq.mimeType = mimeType

\* C15 (amended): as claimed, except that the mime type of the request is
\* the caller's mime type when it is not empty, otherwise file.type when
\* that is not empty, otherwise 'application/octet-stream'.
C15_ModelSelection ==
  genReqs > 0 =>
    /\ isComplex => (genReq.model = GEMINI_PRO_MODEL
                     /\ genReq.thinkingBudget = THINKING_BUDGET)
    /\ ~isComplex => (genReq.model = GEMINI_FLASH_MODEL
                      /\ genReq.thinkingBudget = NoBudget)
    /\ genReq.fileUri = fileUri /\ fileUri # "NONE"
    /\ mimeType # "" => genReq.mimeType = mimeType
    /\ (mimeType = "" /\ fileType # "") => genReq.mimeType = fileType
    /\ (mimeType = "" /\ fileType = "") =>
          genReq.mimeType = "application/octet-stream"

C15_Witness ==
  /\ genReqs = 1 /\ ~isComplex
  /\ genReq.model = GEMINI_FLASH_MODEL /\ genReq.thinkingBudget = NoBudget
  /\ mimeType = "" /\ genReq.mimeType = "audio/webm"

\* C12 (as claimed): a failure of the session start, of a chunk request, of
\* a readiness poll (a transport failure or an unsuccessful HTTP response)
\* or of the generation call makes transcribeMedia fail, and no request of
\* a later stage is made.
C12_Original ==
  /\ initResp \in {"NETERR", "NOT_OK", "NO_URL"} =>
       (pc = "threw" /\ chunkReqs = <<>> /\ pollReqs = 0 /\ genReqs = 0)
  /\ \A i \in DOMAIN chunkResps :
       (\/ chunkResps[i] = NETERR
        \/ (~Continue(variant, chunkResps[i]) /\ ~Complete(variant, chunkResps[i])))
       => (pc = "threw" /\ Len(chunkReqs) = i /\ pollReqs = 0 /\ genReqs = 0)
  /\ \A i \in DOMAIN pollResps :
       (pollResps[i] = NETERR \/ ~Ok(pollResps[i]))
       => (pc = "threw" /\ pollReqs = i /\ genReqs = 0)
  /\ genResp = "ERROR" => (pc = "threw" /\ result = "NONE")

\* The requests a call has started so far.
RequestsOf(s) == Len(s.chunkReqs) + s.pollReqs + s.genReqs

\* C13 (as claimed): once the caller has asked to abort a call in flight
\* (the App can only do so with handleReset), that call starts no further
\* chunk, poll or generation request.
C13_Original ==
  [][\A c \in abandoned : RequestsOf(calls'[c]) = RequestsOf(calls[c])]_vars

\* A call run alone: the handlers applied, one after the other, to the
\* events the call received.
Apply(s, e) ==
  CASE e.kind = "call"  -> OnCall(s)
    [] e.kind = "init"  -> OnInitResponse(s, e.body)
    [] e.kind = "chunk" -> OnChunkResponse(s, e.status, e.body)
    [] e.kind = "timer" -> OnPollTimer(s)
    [] e.kind = "poll"  -> OnPollResponse(s, e.status, e.body)
    [] e.kind = "gen"   -> OnGenResponse(s, e.body)

RECURSIVE RunAlone(_, _)
RunAlone(s, log) ==
  IF log = <<>> THEN s ELSE RunAlone(Apply(s, Head(log)), Tail(log))

LastState(obs) == obs[Len(obs)]

\* The call is in its poll loop: waiting for the timer or for the answer to
\* a readiness request.
Polling == pc \in {"wait", "pollFetch"}

\* C21 (as claimed): the poller enforces no bound on the number of polls;
\* a poll that reports PROCESSING is followed by another wait and another
\* poll; and the poller terminates, returning or failing, if and only if the
\* server reports a state other than PROCESSING.
C21_Original ==
  /\ [][(pc = "pollFetch" /\ pc' # "pollFetch") =>
          (pc' = "wait" <=>
             (Len(stateObs') > Len(stateObs)
              /\ LastState(stateObs') = "PROCESSING"))]_vars
  /\ [][(Polling /\ ~Polling') =>
          (/\ Len(stateObs') > Len(stateObs)
           /\ LastState(stateObs') # "PROCESSING")]_vars
  /\ (pc = "wait") ~> (pc = "pollFetch")

\* C21 (amended): the poller enforces no bound on the number of polls; a
\* poll that reports PROCESSING is followed by another wait and another
\* poll; and the poller terminates if and only if a poll does not report
\* PROCESSING: it reports another state (FAILED fails the call, any other
\* value returns the handle), or the poll request fails or its body cannot
\* be read (the call fails).
C21_PollsWhileProcessing ==
  /\ [][(pc = "pollFetch" /\ pc' # "pollFetch") =>
          (pc' = "wait" <=>
             (Len(stateObs') > Len(stateObs)
              /\ LastState(stateObs') = "PROCESSING"))]_vars
  /\ [][(Polling /\ ~Polling') =>
          \/ /\ Len(stateObs') > Len(stateObs)
             /\ LastState(stateObs') = "FAILED"
             /\ pc' = "threw" /\ error' = "ProcessingFailed"
          \/ /\ Len(stateObs') > Len(stateObs)
             /\ LastState(stateObs') \notin {"PROCESSING", "FAILED"}
             /\ pc' = "generate"
          \/ /\ Len(stateObs') = Len(stateObs)
             /\ pc' = "threw" /\ error' \in {"NetworkError", "ParseError"}]_vars
  /\ (pc = "wait") ~> (pc = "pollFetch")

\* As many polls as the server answers PROCESSING: the poller is still
\* polling after MaxPolls PROCESSING answers in a row.
C21_Witness ==
  /\ pc = "pollFetch" /\ pollReqs = MaxPolls
  /\ ProcCount = MaxPolls /\ Len(stateObs) = MaxPolls

\* The URL is absolute: it starts with a scheme and host.
Absolute(u) == u # <<>> /\ Head(u) = HOST

\* The number of times the credential occurs in the query component.
CredentialCount(u) ==
  Cardinality({i \in DOMAIN u :
                 /\ u[i] = KEY_PARAM
                 /\ \E j \in 1..(i - 1) : u[j] = "?"})

\* C22 (as claimed): after a successful session start the URL every chunk
\* request is sent to (resumableUrl, not assigned again once the loop is
\* entered) is absolute and carries the credential in its query exactly
\* once.
C22_Original ==
  chunkReqs # <<>> =>
    /\ Absolute(resumableUrl)
    /\ CredentialCount(resumableUrl) = 1

\* The chunk requests marked 'upload, finalize'.
Finalizes == {i \in DOMAIN chunkReqs : chunkReqs[i].finalize}

\* C23: in the command-style uploader every chunk request carries its start
\* offset, and it carries the finalize directive if and only if its end is
\* the file size; so at most one request finalizes, it is the last request
\* sent, and a run that has uploaded every chunk has sent exactly one.
C23_FinalizeIffLast ==
  variant = "A" =>
    /\ pc = "chunkFetch" => chunkReqs[Len(chunkReqs)].offset = offset
    /\ \A i \in DOMAIN chunkReqs :
         chunkReqs[i].finalize <=> chunkReqs[i].end = fileSize
    /\ \A i \in Finalizes : i = Len(chunkReqs)
    /\ (LoopExited /\ fileSize > 0 /\ offset = fileSize) =>
         Finalizes = {Len(chunkReqs)}

C23_Witness ==
  /\ variant = "A" /\ fileSize = 5 /\ chunkSize = 2
  /\ LoopExited /\ offset = fileSize
  /\ Len(chunkReqs) = 3
  /\ ~chunkReqs[2].finalize /\ chunkReqs[3].finalize

\* C24: in the range-style uploader every chunk request carries the range
\* offset-(chunkEnd - 1)/fileSize; a 308 answer advances the offset to
\* chunkEnd and goes back to the test of the loop (the next chunk is sent
\* from there, or the loop is over); a 200/201 answer ends the chunk loop:
\* no further chunk is sent and the resource of the body is taken.
C24_RangeStyle ==
  /\ [](variant = "B" =>
         /\ pc = "chunkFetch" => chunkReqs[Len(chunkReqs)].offset = offset
         /\ \A i \in DOMAIN chunkReqs :
              /\ chunkReqs[i].rangeEnd = chunkReqs[i].end - 1
              /\ chunkReqs[i].rangeEnd >= chunkReqs[i].offset
              /\ chunkReqs[i].total = fileSize
              /\ ~chunkReqs[i].finalize)
  /\ [][(variant = "B" /\ pc = "chunkFetch"
         /\ Len(chunkResps') = Len(chunkResps) + 1) =>
          LET status == chunkResps'[Len(chunkResps')]
              req    == chunkReqs[Len(chunkReqs)]
          IN /\ status = 308 =>
                  /\ offset' = req.end
                  /\ IF req.end < fileSize
                     THEN /\ pc' = "chunkFetch"
                          /\ Len(chunkReqs') = Len(chunkReqs) + 1
                          /\ chunkReqs'[Len(chunkReqs')].offset = req.end
                     ELSE /\ pc' = "threw" /\ chunkReqs' = chunkReqs
             /\ status \in {200, 201} =>
                  /\ chunkReqs' = chunkReqs
                  /\ pc' # "chunkFetch"
                  /\ fileUri' = "URI" \/ error' = "ParseError"]_vars

C24_Witness ==
  /\ variant = "B" /\ fileSize = 5 /\ chunkSize = 3
  /\ chunkResps = <<308, 201>> /\ fileUri = "URI"
  /\ chunkReqs[1].rangeEnd = 2
  /\ chunkReqs[2].offset = 3 /\ chunkReqs[2].rangeEnd = 4

\* C25: for a zero-byte file the session-start request is sent, no chunk
\* request is sent and no progress is emitted; the run fails; no handle is
\* returned and no wait, poll or generation request is made.
C25_ZeroByteFile ==
  fileSize = 0 =>
    /\ chunkReqs = <<>> /\ progressSeq = <<>>
    /\ waits = 0 /\ pollReqs = 0 /\ genReqs = 0
    /\ fileUri = "NONE" /\ result = "NONE"
    /\ pc \in {"idle", "initFetch", "threw"}
    /\ (apiKey /\ pc # "idle") => initReqs = 1
    /\ initResp = "OK_URL" => (pc = "threw" /\ error = "LoopFinished")

C25_Witness ==
  /\ fileSize = 0 /\ initReqs = 1 /\ initResp = "OK_URL"
  /\ pc = "threw" /\ error = "LoopFinished"

\* C26: in the range-style uploader a final chunk answered 308 makes the
\* run fail once the loop is left: no URI is returned, nothing is polled,
\* no generation request is made, and the last progress emitted, for that
\* chunk, is 99.
C26_Final308Fails ==
  variant = "B" =>
    \A i \in DOMAIN chunkResps :
      (chunkReqs[i].end = fileSize /\ chunkResps[i] = 308) =>
        /\ pc = "threw" /\ error = "LoopFinished"
        /\ i = Len(chunkReqs)
        /\ fileUri = "NONE" /\ result = "NONE"
        /\ waits = 0 /\ pollReqs = 0 /\ genReqs = 0
        /\ Len(progressSeq) = i /\ progressSeq[i].percent = 99

C26_Witness ==
  /\ variant = "B" /\ fileSize = 5 /\ chunkSize = 2
  /\ chunkResps = <<308, 308, 308>>
  /\ pc = "threw" /\ error = "LoopFinished"
  /\ progressSeq[3].percent = 99

\* The calls of transcribeMedia that have not settled.
CallsInFlight == {c \in CallIds : InFlight(calls[c])}

\* A step in which startTranscription enters a new call.
StartStep == \E c \in CallIds : calls[c].pc = "idle" /\ calls'[c].pc # "idle"

\* C27 (as claimed): in the App at most one transcribeMedia call is in
\* flight at any time, and startTranscription is never entered while an
\* earlier call has not settled.
C27_Original ==
  /\ [](Cardinality(CallsInFlight) <= 1)
  /\ [][StartStep => CallsInFlight = {}]_vars

\* The App state that handleReset leaves behind.
ResetState ==
  /\ appState = "IDLE" /\ transcription = ""
  /\ appError = NoError /\ uploadProgress = 0

\* C28 (as claimed): after handleReset the App state stays reset until the
\* user selects a file (while no file is selected the state is the reset
\* state), and no step of a call that was in flight at a reset (progress
\* callback, result, error) changes the App state.
C28_Original ==
  /\ [](uploadedFile = NoFile => ResetState)
  /\ [][\A c \in abandoned :
          calls'[c] # calls[c] => AppRec' = AppRec]_vars

\* One setAppState call, as the claim allows it.
Allowed(from, to) ==
  \/ from = to
  \/ <<from, to>> \in {<<"IDLE", "UPLOADING">>, <<"UPLOADING", "COMPLETE">>,
                       <<"UPLOADING", "ERROR">>}
  \/ to = "IDLE" /\ uploadedFile' # uploadedFile

\* C29 (as claimed): appState only moves IDLE -> UPLOADING (start),
\* UPLOADING -> COMPLETE (result), UPLOADING -> ERROR (failure) and back to
\* IDLE on file selection or reset (a start that fails at once sets
\* UPLOADING and then ERROR); PROCESSING is never reached; the App is in
\* UPLOADING while a call polls or generates; COMPLETE implies error is
\* null.
C29_Original ==
  /\ [][IF StartStep
        THEN Allowed(appState, "UPLOADING") /\ Allowed("UPLOADING", appState')
        ELSE Allowed(appState, appState')]_vars
  /\ [](appState # "PROCESSING")
  /\ [](\A c \in CallIds :
          calls[c].pc \in {"wait", "pollFetch", "generate"} =>
            appState = "UPLOADING")
  /\ [](appState = "COMPLETE" => appError = NoError)

====
